---- MODULE Spec2Model ----
(***************************************************************************)
(* __torch_function__ dispatch during symbolic tracing                     *)
(* (torch/_dynamo/variables/torch_function.py).                            *)
(*                                                                         *)
(* The tracer holds a flag (tx.output.torch_function_enabled) and calls    *)
(* the entry points can_dispatch_torch_function, dispatch_torch_function,  *)
(* TensorWithTFOverrideVariable.var_getattr and .call_method.  Override    *)
(* handlers (__torch_function__ of a tensor subclass) are user code: what  *)
(* they return is a nondeterministic choice.                               *)
(***************************************************************************)
EXTENDS Naturals, Sequences, FiniteSets, TLC

\* ------------------------------------------------------------- bounds
NumTypes == 3
MaxLeaves == 3
MaxDepth == 2

\* ------------------------------------------------------------- types
\* Tensor subclasses with a __torch_function__ override.
Types == 1..NumTypes

\* A type hierarchy is the set of pairs <<b, a>> with b a strict subclass of
\* a: transitive and acyclic.  Classes are numbered in definition order, so a
\* base class has a smaller number than the classes derived from it.
Hierarchies ==
    {h \in SUBSET {p \in Types \X Types : p[2] < p[1]} :
        \A p \in h, q \in h : p[2] = q[1] => <<p[1], q[2]>> \in h}

\* issubclass(b, a) with b # a
IsStrictSubclass(h, b, a) == <<b, a>> \in h

\* ------------------------------------------------------------- values
\* A leaf of a call site: a TensorWithTFOverrideVariable of some class_type,
\* or any other VariableTracker.
PlainLeaf == [tf |-> FALSE, class_type |-> 0]

OvLeaf(t) == [tf |-> TRUE, class_type |-> t]

OvLeaves == {OvLeaf(t) : t \in Types}

LeafValues == {PlainLeaf} \cup OvLeaves

\* isinstance(arg, TensorWithTFOverrideVariable)
IsTFOverride(v) == v.tf

\* Python containers: a leaf, an ordered sequence, or a mapping (its values
\* in insertion order).
Leaf(v) == [k |-> "leaf", v |-> v, items |-> <<>>]

Container(kind, items) == [k |-> kind, v |-> PlainLeaf, items |-> items]

ContainerKinds == {"seq", "map"}

RECURSIVE Flatten(_, _)
Flatten(items, i) ==
    IF i > Len(items) THEN <<>>
    ELSE LET t == items[i]
         IN (IF t.k = "leaf" THEN <<t.v>> ELSE Flatten(t.items, 1))
            \o Flatten(items, i + 1)

\* pytree.tree_leaves of a list of arguments or of a dict of keyword arguments
tree_leaves(items) == Flatten(items, 1)

RECURSIVE SelectSeqTF(_)
SelectSeqTF(s) ==
    IF s = <<>> THEN <<>>
    ELSE (IF IsTFOverride(Head(s)) THEN <<Head(s)>> ELSE <<>>) \o SelectSeqTF(Tail(s))

\* (mutant) the keyword arguments are left out
all_args_positional_only(a, kw) == tree_leaves(a)

\* all_args = pytree.tree_leaves(args) + pytree.tree_leaves(kwargs)
all_args(a, kw) == tree_leaves(a) \o tree_leaves(kw)

\* [arg for arg in all_args if isinstance(arg, TensorWithTFOverrideVariable)]
RelevantArgs(a, kw) == SelectSeqTF(all_args(a, kw))

\* (mutant) the Python type of the variable, the same for every argument
GetTypeOfVariable(x) == 0

\* lambda x: x.class_type
GetType(x) == x.class_type

\* ------------------------------------------------------------- ordering
\* _get_overloaded_args, step 1: one argument per distinct type, in order of
\* first occurrence.
RECURSIVE FirstOccurrence(_, _)
FirstOccurrence(s, seen) ==
    IF s = <<>> THEN <<>>
    ELSE IF GetType(Head(s)) \in seen THEN FirstOccurrence(Tail(s), seen)
    ELSE <<Head(s)>> \o FirstOccurrence(Tail(s), seen \cup {GetType(Head(s))})

\* Move element j of l immediately before element i (i < j).
MoveBefore(l, i, j) ==
    [n \in 1..Len(l) |->
        IF n < i \/ n > j THEN l[n]
        ELSE IF n = i THEN l[j]
        ELSE l[n - 1]]

\* (mutant) any two related types are taken for a pair to reorder
EligiblePairsEitherWay(h, l) ==
    {p \in (1..Len(l)) \X (1..Len(l)) :
        /\ p[1] < p[2]
        /\ \/ IsStrictSubclass(h, GetType(l[p[2]]), GetType(l[p[1]]))
           \/ IsStrictSubclass(h, GetType(l[p[1]]), GetType(l[p[2]]))}

\* The pairs (i, j): l[i] appears before l[j] and l[j] is a strict subclass
\* of l[i].
EligiblePairs(h, l) ==
    {p \in (1..Len(l)) \X (1..Len(l)) :
        p[1] < p[2] /\ IsStrictSubclass(h, GetType(l[p[2]]), GetType(l[p[1]]))}

\* _get_overloaded_args, step 2: one subclass-precedence move.
Moves(h, l) == {MoveBefore(l, p[1], p[2]) : p \in EligiblePairs(h, l)}

RECURSIVE MoveClosure(_, _)
MoveClosure(h, S) ==
    LET n == S \cup UNION {Moves(h, l) : l \in S}
    IN IF n = S THEN S ELSE MoveClosure(h, n)

\* The lists the reordering can end in: no move is possible any more.
FixedPoints(h, l) == {o \in MoveClosure(h, {l}) : Moves(h, o) = {}}

\* _get_overloaded_args(relevant_args, get_type_fn): the possible results.
get_overloaded_args(h, relevant) == FixedPoints(h, FirstOccurrence(relevant, {}))

TypesOf(l) == [n \in 1..Len(l) |-> GetType(l[n])]

\* ------------------------------------------------------------- names
\* An attribute or method name, by what the lookups of the code find:
\*   onBase  hasattr(torch.Tensor, name)
\*   banned  name in banned_attrs (names of base tensor attribute getters)
\*   static  inspect.getattr_static(class_type, name): nothing ("none"), the
\*           implementation inherited from torch.Tensor ("base"), or one the
\*           subclass defines ("own").  class_type derives from torch.Tensor,
\*           so a name of the base type is always found.
AttrNames ==
    {n \in [onBase : BOOLEAN, banned : BOOLEAN, static : {"none", "base", "own"}] :
        /\ n.banned => n.onBase
        /\ n.static = "base" => n.onBase
        /\ n.static = "none" => ~n.onBase}

banned_attrs == {n \in AttrNames : n.banned}

\* hasattr(torch.Tensor, name)
HasTensorAttr(n) == n.onBase

\* (mutant) the comparison of the two implementations is inverted
is_attr_overidden_inverted(n) ==
    IF n.static = "none" THEN FALSE
    ELSE IF ~n.onBase THEN FALSE
    ELSE n.static = "base"

\* _is_attr_overidden: an AttributeError of either lookup leaves it False.
is_attr_overidden(n) ==
    IF n.static = "none" THEN FALSE
    ELSE IF ~n.onBase THEN FALSE
    ELSE n.static # "base"

\* The tracked values: class_type and whether a source is attached.
Receivers == [class_type : Types, source : BOOLEAN]

NoRecv == [class_type |-> 0, source |-> FALSE]

NoName == [onBase |-> FALSE, banned |-> FALSE, static |-> "none"]

\* ------------------------------------------------------------- results
NoRes == [kind |-> "none", const |-> FALSE, value |-> "none", by |-> 0]

\* unimplemented(...) and uncaught Python exceptions
Raised(e) == [kind |-> "error", const |-> FALSE, value |-> e, by |-> 0]

\* what the base TensorVariable produces
BaseResult(what) == [kind |-> "base", const |-> FALSE, value |-> what, by |-> 0]

BoolResult(b) ==
    [kind |-> "bool", const |-> TRUE, value |-> IF b THEN "True" ELSE "False", by |-> 0]

\* What the __torch_function__ of type t may return: ConstantVariable(NotImplemented),
\* another constant, or a non-constant variable.
HandlerResults(t) ==
    {[kind |-> "var", const |-> c, value |-> v, by |-> t] :
        c \in BOOLEAN, v \in {"NotImplemented", "other"}} \
    {[kind |-> "var", const |-> FALSE, value |-> "NotImplemented", by |-> t]}

\* (mutant) any constant result is taken for the sentinel
IsNotImplementedAnyConst(r) == r.const

\* isinstance(res, ConstantVariable) and res.value is NotImplemented
IsNotImplemented(r) == r.const /\ r.value = "NotImplemented"

\* ------------------------------------------------------------- functions
NoFn == [kind |-> "none", impl |-> "none"]

\* a torch API function handed to dispatch_torch_function by the tracer
TorchApiFn == [kind |-> "api", impl |-> "api"]

\* ------------------------------------------------------------- call sites
LeafSeq(s) == [n \in 1..Len(s) |-> Leaf(s[n])]

RECURSIVE Nest(_, _)
Nest(kinds, items) ==
    IF kinds = <<>> THEN items
    ELSE <<Container(Head(kinds), Nest(Tail(kinds), items))>>

RECURSIVE SeqsUpTo(_, _)
SeqsUpTo(S, n) ==
    IF n = 0 THEN {<<>>}
    ELSE LET shorter == SeqsUpTo(S, n - 1)
         IN shorter \cup {Append(s, x) : s \in {t \in shorter : Len(t) = n - 1}, x \in S}

\* Flat call sites of overriding arguments (ordering).
FlatArgLists == SeqsUpTo(OvLeaves, MaxLeaves)

\* Nestings of containers, d deep, of alternating kinds.
OtherKind(kind) == IF kind = "seq" THEN "map" ELSE "seq"

Nesting(kind, d) == [i \in 1..d |-> IF i % 2 = 1 THEN kind ELSE OtherKind(kind)]

Nestings == {Nesting(kind, d) : kind \in ContainerKinds, d \in 0..MaxDepth}

\* Call sites with up to two leaves split over args and kwargs, each group
\* nested in containers up to MaxDepth deep.
ShortLeafLists == SeqsUpTo(LeafValues, 2)

NestedCallSitesOf(l) ==
    {[args |-> Nest(ks, LeafSeq(SubSeq(l, 1, k))),
      kwargs |-> Nest(ks, LeafSeq(SubSeq(l, k + 1, Len(l))))] :
        k \in 0..Len(l), ks \in Nestings}

NestedCallSites == UNION {NestedCallSitesOf(l) : l \in ShortLeafLists}

\* Arguments of a method call: none, one positional or one keyword argument.
MethodCallSites ==
    {[args |-> <<>>, kwargs |-> <<>>]}
    \cup {[args |-> <<Leaf(v)>>, kwargs |-> <<>>] : v \in LeafValues}
    \cup {[args |-> <<>>, kwargs |-> <<Leaf(v)>>] : v \in LeafValues}

\* ------------------------------------------------------------- state
VARIABLES
    hier,             \* the subclass relation of the tensor subclasses
    enabled,          \* tx.output.torch_function_enabled
    pc,               \* "idle", "loop" (in dispatch_torch_function's loop), "done"
    op,               \* the entry point the tracer called
    recv,             \* self of var_getattr / call_method
    name,             \* the attribute or method name
    fn,               \* the function handed to the handlers
    args,             \* positional arguments given to dispatch
    kwargs,           \* keyword arguments given to dispatch
    overloaded_args,  \* the result of _get_overloaded_args
    idx,              \* position of the loop over overloaded_args
    calls,            \* the __torch_function__ calls made, in order
    res,              \* what the entry point returned or raised
    global_scope      \* tx.output.global_scope: the names installed for subclasses

vars == <<hier, enabled, pc, op, recv, name, fn, args, kwargs, overloaded_args, idx, calls, res,
          global_scope>>

callVars == <<recv, name, fn, args, kwargs>>

loopVars == <<overloaded_args, idx, calls>>

Idle ==
    /\ pc = "idle"
    /\ op = "none"
    /\ recv = NoRecv
    /\ name = NoName
    /\ fn = NoFn
    /\ args = <<>>
    /\ kwargs = <<>>
    /\ overloaded_args = <<>>
    /\ idx = 0
    /\ calls = <<>>
    /\ res = NoRes

\* The tracer's entry points are explored under the hierarchies with at most
\* one subclass pair; the ordering is explored under all of them (InitOrder).
Init ==
    /\ hier \in {h \in Hierarchies : Cardinality(h) <= 1}
    /\ enabled \in BOOLEAN
    /\ global_scope = {}
    /\ Idle

InitOrder ==
    /\ hier \in Hierarchies
    /\ enabled = TRUE
    /\ global_scope = {}
    /\ Idle

\* ------------------------------------------------------------- entry points
\* can_dispatch_torch_function(tx, args, kwargs)
can_dispatch_torch_function(en, a, kw) ==
    IF en
    THEN \E i \in 1..Len(all_args(a, kw)) : IsTFOverride(all_args(a, kw)[i])
    ELSE FALSE

CanDispatch(cs) ==
    /\ pc = "idle"
    /\ op' = "can_dispatch"
    /\ args' = cs.args
    /\ kwargs' = cs.kwargs
    /\ res' = BoolResult(can_dispatch_torch_function(enabled, cs.args, cs.kwargs))
    /\ pc' = "done"
    /\ UNCHANGED <<global_scope, hier, enabled, recv, name, fn, loopVars>>

Reverse(l) == [n \in 1..Len(l) |-> l[Len(l) + 1 - n]]

\* (mutant) every overriding argument, not one per type
OverloadedArgsNoDedup(h, a, kw) == {RelevantArgs(a, kw)}

\* (mutant) the arguments are scanned right to left
OverloadedArgsReversed(h, a, kw) == get_overloaded_args(h, Reverse(RelevantArgs(a, kw)))

\* dispatch_torch_function, up to its loop: the overloaded arguments of the
\* call site, ordered by _get_overloaded_args.
OverloadedArgs(h, a, kw) == get_overloaded_args(h, RelevantArgs(a, kw))

DispatchTorchFunction(f, a, kw) ==
    /\ \E o \in OverloadedArgs(hier, a, kw) : overloaded_args' = o
    /\ fn' = f
    /\ args' = a
    /\ kwargs' = kw
    /\ idx' = 1
    /\ calls' = <<>>
    /\ res' = NoRes
    /\ pc' = "loop"

Dispatch(cs) ==
    /\ pc = "idle"
    /\ op' = "dispatch"
    /\ DispatchTorchFunction(TorchApiFn, cs.args, cs.kwargs)
    /\ UNCHANGED <<global_scope, hier, enabled, recv, name>>

\* (mutant) the keyword arguments are not passed on to the handler
TFCallNoKwargs(arg, f, types, a, kw, r) ==
    [cls |-> arg.class_type, handler |-> arg.class_type, fn |-> f,
     types |-> types, args |-> a, kwargs |-> <<>>, ret |-> r]

\* call_torch_function(tx, torch_function_type, torch_function_var, fn, types,
\* args, kwargs): one __torch_function__ call and what it returned.
TFCall(arg, f, types, a, kw, r) ==
    [cls |-> arg.class_type, handler |-> arg.class_type, fn |-> f,
     types |-> types, args |-> a, kwargs |-> kw, ret |-> r]

\* one iteration of the loop over overloaded_args
CallHandler ==
    /\ pc = "loop"
    /\ idx <= Len(overloaded_args)
    /\ \E r \in HandlerResults(overloaded_args[idx].class_type) :
        /\ calls' = Append(calls,
              TFCall(overloaded_args[idx], fn, TypesOf(overloaded_args), args, kwargs, r))
        /\ IF ~IsNotImplemented(r)
           THEN /\ res' = r
                /\ pc' = "done"
                /\ idx' = idx
           ELSE /\ idx' = idx + 1
                /\ UNCHANGED <<res, pc>>
    /\ UNCHANGED <<global_scope, hier, enabled, op, callVars, overloaded_args>>

\* the loop ran out of overloaded arguments: unimplemented(...)
Unimplemented ==
    /\ pc = "loop"
    /\ idx > Len(overloaded_args)
    /\ res' = Raised("UnsupportedDispatch")
    /\ pc' = "done"
    /\ UNCHANGED <<global_scope, hier, enabled, op, callVars, loopVars>>

\* the tracked value as an argument
SelfLeaf(self) == OvLeaf(self.class_type)

\* (mutant) the overridden-attribute check comes before the deny-list check
var_getattr_branch_overridden_first(en, n) ==
    IF is_attr_overidden(n) THEN "OverriddenAttributeUnsupported"
    ELSE IF n \in banned_attrs \/ ~HasTensorAttr(n) THEN "UnsupportedAttribute"
    ELSE IF en THEN "torch_function"
    ELSE "base"

\* TensorWithTFOverrideVariable.var_getattr: which branch is taken.
var_getattr_branch(en, n) ==
    IF n \in banned_attrs \/ ~HasTensorAttr(n) THEN "UnsupportedAttribute"
    ELSE IF is_attr_overidden(n) THEN "OverriddenAttributeUnsupported"
    ELSE IF en THEN "torch_function"
    ELSE "base"

\* get_fn: the getter of the attribute, looked up statically on the class of
\* a sourced value and on torch.Tensor otherwise.
GetterFn(self, n) ==
    [kind |-> "getter", impl |-> IF self.source THEN n.static ELSE "base"]

VarGetattr(self, n) ==
    /\ pc = "idle"
    /\ op' = "var_getattr"
    /\ recv' = self
    /\ name' = n
    /\ pc' = "done"
    /\ LET b == var_getattr_branch(enabled, n)
       IN IF b = "torch_function"
          THEN \E r \in HandlerResults(self.class_type) :
                /\ fn' = GetterFn(self, n)
                /\ calls' = <<TFCall(SelfLeaf(self), GetterFn(self, n), <<self.class_type>>,
                                     <<Leaf(SelfLeaf(self))>>, <<>>, r)>>
                /\ res' = r
          ELSE /\ res' = IF b = "base" THEN BaseResult("var_getattr") ELSE Raised(b)
               /\ UNCHANGED <<fn, calls>>
    /\ UNCHANGED <<global_scope, hier, enabled, args, kwargs, overloaded_args, idx>>

\* TensorWithTFOverrideVariable.call_method: which branch is taken.  With the
\* flag on and the name not overridden, the method is looked up statically on
\* the class of a sourced value and on torch.Tensor otherwise; a failing
\* lookup raises AttributeError.
call_method_branch(en, self, n) ==
    IF ~en THEN "base"
    ELSE IF is_attr_overidden(n) THEN "OverriddenAttributeUnsupported"
    ELSE IF self.source /\ n.static = "none" THEN "AttributeError"
    ELSE IF ~self.source /\ ~n.onBase THEN "AttributeError"
    ELSE "torch_function"

\* func_var
MethodFn(self, n) ==
    [kind |-> "method", impl |-> IF self.source THEN n.static ELSE "base"]

CallMethod(self, n, cs) ==
    /\ pc = "idle"
    /\ op' = "call_method"
    /\ recv' = self
    /\ name' = n
    /\ LET b == call_method_branch(enabled, self, n)
       IN IF b = "torch_function"
          THEN DispatchTorchFunction(MethodFn(self, n),
                                     <<Leaf(SelfLeaf(self))>> \o cs.args, cs.kwargs)
          ELSE /\ res' = IF b = "base" THEN BaseResult("call_method") ELSE Raised(b)
               /\ args' = cs.args
               /\ kwargs' = cs.kwargs
               /\ pc' = "done"
               /\ UNCHANGED <<fn, loopVars>>
    /\ UNCHANGED <<global_scope, hier, enabled>>

\* the entry point has returned or raised; the tracer goes on
Return ==
    /\ pc = "done"
    /\ pc' = "idle"
    /\ op' = "none"
    /\ recv' = NoRecv
    /\ name' = NoName
    /\ fn' = NoFn
    /\ args' = <<>>
    /\ kwargs' = <<>>
    /\ overloaded_args' = <<>>
    /\ idx' = 0
    /\ calls' = <<>>
    /\ res' = NoRes
    /\ UNCHANGED <<global_scope, hier, enabled>>

\* ------------------------------------------------------------- specifications
Next ==
    \/ \E cs \in NestedCallSites : CanDispatch(cs)
    \/ \E cs \in NestedCallSites : Dispatch(cs)
    \/ \E self \in Receivers, n \in AttrNames : VarGetattr(self, n)
    \/ \E self \in Receivers, n \in AttrNames, cs \in MethodCallSites : CallMethod(self, n, cs)
    \/ CallHandler
    \/ Unimplemented
    \/ Return

Spec == Init /\ [][Next]_vars

\* Ordering: dispatch over flat call sites of overriding arguments, under
\* every hierarchy.
OrderDispatch == \E l \in FlatArgLists : Dispatch([args |-> LeafSeq(l), kwargs |-> <<>>])

NextOrder ==
    \/ OrderDispatch
    \/ CallHandler
    \/ Unimplemented
    \/ Return

SpecOrder == InitOrder /\ [][NextOrder]_vars

\* The subclass-precedence reordering of _get_overloaded_args, one move at a
\* time, whichever eligible pair is picked.
StartReorder(l) ==
    /\ pc = "idle"
    /\ op' = "reorder"
    /\ args' = LeafSeq(l)
    /\ overloaded_args' = FirstOccurrence(RelevantArgs(LeafSeq(l), <<>>), {})
    /\ pc' = "reorder"
    /\ UNCHANGED <<global_scope, hier, enabled, recv, name, fn, kwargs, idx, calls, res>>

MoveStep ==
    /\ pc = "reorder"
    /\ \E o \in Moves(hier, overloaded_args) : overloaded_args' = o
    /\ UNCHANGED <<global_scope, hier, enabled, pc, op, callVars, idx, calls, res>>

FinishReorder ==
    /\ pc = "reorder"
    /\ Moves(hier, overloaded_args) = {}
    /\ pc' = "done"
    /\ UNCHANGED <<global_scope, hier, enabled, op, callVars, loopVars, res>>

NextReorder ==
    \/ \E l \in FlatArgLists : StartReorder(l)
    \/ MoveStep
    \/ FinishReorder
    \/ Return

\* The loop goes on while a move is possible and ends when none is.
SpecReorder ==
    /\ InitOrder
    /\ [][NextReorder]_vars
    /\ WF_vars(MoveStep)
    /\ WF_vars(FinishReorder)

\* ------------------------------------------------------------- wrapping
\* class_type.__name__: two classes may be declared with the same name
DeclaredName(t) == (t + 1) \div 2

\* id(class_type): distinct for distinct live classes
ClassId(t) == t

\* (mutant) the name is derived from the declared name alone
global_mangled_class_name_no_id(t) == <<DeclaredName(t), 0>>

\* global_mangled_class_name: f"__subclass_{class_type.__name__}_{id(class_type)}"
global_mangled_class_name(t) == <<DeclaredName(t), ClassId(t)>>

\* name not in tx.output.global_scope
NotInGlobalScope(scope, key) == \A e \in scope : e.key # key

\* tx.output.install_global(name, value)
install_global(scope, key, value) == scope \cup {[key |-> key, value |-> value]}

\* the TensorWithTFOverrideVariable made by from_tensor_var, and whether the
\* class was installed by this call
WrappedResult(t, installed) ==
    [kind |-> "wrapped", const |-> FALSE,
     value |-> IF installed THEN "installed" ELSE "present", by |-> t]

\* TensorWithTFOverrideVariable.from_tensor_var(tx, tensor_var, class_type,
\* torch_function_fn); isTensor: tensor_var.class_type is torch.Tensor.
FromTensorVar(t, src, isTensor) ==
    /\ pc = "idle"
    /\ op' = "from_tensor_var"
    /\ recv' = [class_type |-> t, source |-> src]
    /\ pc' = "done"
    /\ IF ~isTensor
       THEN /\ res' = Raised("AssertionError")
            /\ UNCHANGED global_scope
       ELSE LET key == global_mangled_class_name(t)
            IN IF NotInGlobalScope(global_scope, key)
               THEN /\ global_scope' = install_global(global_scope, key, t)
                    /\ res' = WrappedResult(t, TRUE)
               ELSE /\ res' = WrappedResult(t, FALSE)
                    /\ UNCHANGED global_scope
    /\ UNCHANGED <<hier, enabled, name, fn, args, kwargs, loopVars>>

\* build_torch_function_fn(tx, value, source): the builder it uses.
build_torch_function_fn(src) ==
    IF ~src THEN "VariableBuilder" ELSE "SourcelessBuilder"

BuilderResult(b, t) == [kind |-> "builder", const |-> FALSE, value |-> b, by |-> t]

\* recv holds the class of value and whether a source was given
BuildTorchFunctionFn(t, src) ==
    /\ pc = "idle"
    /\ op' = "build_torch_function_fn"
    /\ recv' = [class_type |-> t, source |-> src]
    /\ res' = BuilderResult(build_torch_function_fn(src), t)
    /\ pc' = "done"
    /\ UNCHANGED <<global_scope, hier, enabled, name, fn, args, kwargs, loopVars>>

NextWrap ==
    \/ \E t \in Types, src \in BOOLEAN : BuildTorchFunctionFn(t, src)
    \/ \E t \in Types, src \in BOOLEAN, isTensor \in BOOLEAN : FromTensorVar(t, src, isTensor)
    \/ Return

\* Wrapping tensor subclass instances, any number of times.
SpecWrap == Init /\ [][NextWrap]_vars

\* ------------------------------------------------------------- claims
\* the "not implemented" sentinel, as a handler result
ReturnedSentinel(r) == r.kind = "var" /\ r.const /\ r.value = "NotImplemented"

\* dispatch_torch_function has been entered by the current entry point
DispatchEntered == op \in {"dispatch", "call_method"} /\ fn # NoFn

\* C1: in dispatch_torch_function the handlers are tried one at a time in the
\* order of overloaded_args; a handler is called only after every earlier one
\* returned the sentinel; the first result that is not the sentinel is what
\* the dispatch returns, and nothing is called after it; when every handler
\* of the order returned the sentinel the dispatch ends in UnsupportedDispatch.
C1_HandlersInOrder ==
    DispatchEntered =>
        /\ Len(calls) <= Len(overloaded_args)
        /\ \A i \in 1..Len(calls) :
            /\ calls[i].handler = overloaded_args[i].class_type
            /\ i < Len(calls) => ReturnedSentinel(calls[i].ret)
            /\ ~ReturnedSentinel(calls[i].ret) =>
                  i = Len(calls) /\ pc = "done" /\ res = calls[i].ret
        /\ pc = "done" =>
            IF \E i \in 1..Len(calls) : ~ReturnedSentinel(calls[i].ret)
            THEN res.kind = "var" /\ ~ReturnedSentinel(res)
            ELSE /\ res = Raised("UnsupportedDispatch")
                 /\ Len(calls) = Len(overloaded_args)
        /\ pc = "loop" =>
            /\ res = NoRes
            /\ idx = Len(calls) + 1
            /\ \A i \in 1..Len(calls) : ReturnedSentinel(calls[i].ret)

\* C1 witness: three handlers in the order, the first declined, the second
\* returned a constant that is not the sentinel, the third was never called.
C1_Witness ==
    /\ op = "dispatch"
    /\ pc = "done"
    /\ Len(overloaded_args) = 3
    /\ Len(calls) = 2
    /\ ReturnedSentinel(calls[1].ret)
    /\ res = calls[2].ret
    /\ res.const
    /\ TypesOf(overloaded_args) # TypesOf(FirstOccurrence(RelevantArgs(args, kwargs), {}))

\* the overriding leaves of a nest of containers, counted and listed by
\* descending into it
RECURSIVE CountTF(_)
CountTF(items) ==
    IF items = <<>> THEN 0
    ELSE (IF Head(items).k = "leaf"
          THEN (IF Head(items).v.tf THEN 1 ELSE 0)
          ELSE CountTF(Head(items).items))
         + CountTF(Tail(items))

RECURSIVE TFTypeList(_)
TFTypeList(items) ==
    IF items = <<>> THEN <<>>
    ELSE (IF Head(items).k = "leaf"
          THEN (IF Head(items).v.tf THEN <<Head(items).v.class_type>> ELSE <<>>)
          ELSE TFTypeList(Head(items).items))
         \o TFTypeList(Tail(items))

\* the types of the overriding leaves of the call site, in flattened order
LeafTypes == TFTypeList(args) \o TFTypeList(kwargs)

\* the types of overloaded_args, in order
OverloadOrder == [n \in 1..Len(overloaded_args) |-> overloaded_args[n].class_type]

\* C2: a call site without an overriding leaf, at any nesting depth of args
\* and kwargs, is reported not eligible by can_dispatch_torch_function and
\* no handler is called; with the flag on, a single overriding leaf anywhere
\* makes it eligible.
C2_Eligibility ==
    (op = "can_dispatch" /\ pc = "done") =>
        /\ calls = <<>>
        /\ CountTF(args) + CountTF(kwargs) = 0 => res = BoolResult(FALSE)
        /\ (enabled /\ CountTF(args) + CountTF(kwargs) = 1) => res = BoolResult(TRUE)

\* C2 witness: the flag is on and the only overriding leaf sits two
\* containers deep in kwargs.
C2_Witness ==
    /\ op = "can_dispatch"
    /\ pc = "done"
    /\ enabled
    /\ CountTF(args) = 0
    /\ CountTF(kwargs) = 1
    /\ Len(kwargs) = 1
    /\ kwargs[1].k = "map"
    /\ kwargs[1].items[1].k = "seq"
    /\ res = BoolResult(TRUE)

\* C3: in the order computed by dispatch_torch_function a type that is a
\* strict subclass of another type of the order stands before it; leaves of
\* types [A, B] with B a strict subclass of A give [B, A].
C3_SubclassFirst ==
    DispatchEntered =>
        /\ \A i \in 1..Len(OverloadOrder), j \in 1..Len(OverloadOrder) :
              <<OverloadOrder[j], OverloadOrder[i]>> \in hier => j < i
        /\ (Len(LeafTypes) = 2 /\ <<LeafTypes[2], LeafTypes[1]>> \in hier) =>
              OverloadOrder = <<LeafTypes[2], LeafTypes[1]>>

\* C3 witness: leaves [A, X, B], B a strict subclass of A, and B has been
\* moved before A.
C3_Witness ==
    /\ op = "dispatch"
    /\ pc = "loop"
    /\ Len(LeafTypes) = 3
    /\ <<LeafTypes[3], LeafTypes[1]>> \in hier
    /\ OverloadOrder[1] = LeafTypes[3]
    /\ OverloadOrder[2] = LeafTypes[1]

\* C4: the order holds each type of the overriding leaves exactly once and
\* nothing else, and no handler is called twice in one dispatch; one leaf of
\* type T gives [T]; leaves [A, B, A] with B not a subclass of A give [A, B].
C4_EachTypeOnce ==
    DispatchEntered =>
        /\ \A i \in 1..Len(OverloadOrder), j \in 1..Len(OverloadOrder) :
              OverloadOrder[i] = OverloadOrder[j] => i = j
        /\ {OverloadOrder[i] : i \in 1..Len(OverloadOrder)}
              = {LeafTypes[i] : i \in 1..Len(LeafTypes)}
        /\ \A i \in 1..Len(calls), j \in 1..Len(calls) :
              calls[i].handler = calls[j].handler => i = j
        /\ Len(LeafTypes) = 1 => OverloadOrder = LeafTypes
        /\ (/\ Len(LeafTypes) = 3
            /\ LeafTypes[1] = LeafTypes[3]
            /\ LeafTypes[1] # LeafTypes[2]
            /\ <<LeafTypes[2], LeafTypes[1]>> \notin hier) =>
              OverloadOrder = <<LeafTypes[1], LeafTypes[2]>>

\* C4 witness: leaves [A, B, A], both handlers were called, each once.
C4_Witness ==
    /\ op = "dispatch"
    /\ pc = "done"
    /\ Len(LeafTypes) = 3
    /\ LeafTypes[1] = LeafTypes[3]
    /\ LeafTypes[1] # LeafTypes[2]
    /\ OverloadOrder = <<LeafTypes[1], LeafTypes[2]>>
    /\ Len(calls) = 2

\* position of the first leaf of type t
FirstPos(t) == CHOOSE i \in 1..Len(LeafTypes) :
    LeafTypes[i] = t /\ \A k \in 1..(i - 1) : LeafTypes[k] # t

Unrelated(x, y) == x # y /\ <<x, y>> \notin hier /\ <<y, x>> \notin hier

\* C5 as stated: any two unrelated types of the order stand in the order of
\* their first occurrence among the leaves.
C5_UnrelatedStable ==
    DispatchEntered =>
        \A i \in 1..Len(OverloadOrder), j \in 1..Len(OverloadOrder) :
            (i < j /\ Unrelated(OverloadOrder[i], OverloadOrder[j])) =>
                FirstPos(OverloadOrder[i]) < FirstPos(OverloadOrder[j])

\* C5 amended: two unrelated types X and Y, X first occurring before Y, stand
\* in that order unless Y is a strict subclass of a type that first occurs
\* before X (Y is then moved before that ancestor, and so past X).
C5_UnrelatedStableUnlessMoved ==
    DispatchEntered =>
        \A i \in 1..Len(OverloadOrder), j \in 1..Len(OverloadOrder) :
            (/\ Unrelated(OverloadOrder[i], OverloadOrder[j])
             /\ FirstPos(OverloadOrder[i]) < FirstPos(OverloadOrder[j])
             /\ ~\E k \in 1..Len(LeafTypes) :
                   /\ <<OverloadOrder[j], LeafTypes[k]>> \in hier
                   /\ k < FirstPos(OverloadOrder[i])) =>
                i < j

\* C5 witness: leaves [X, A, B], B a strict subclass of A and X unrelated to
\* both: B is moved before A and stays behind X.
C5_Witness ==
    /\ op = "dispatch"
    /\ pc = "loop"
    /\ Len(LeafTypes) = 3
    /\ <<LeafTypes[3], LeafTypes[2]>> \in hier
    /\ Unrelated(LeafTypes[1], LeafTypes[2])
    /\ Unrelated(LeafTypes[1], LeafTypes[3])
    /\ OverloadOrder = <<LeafTypes[1], LeafTypes[3], LeafTypes[2]>>

\* C6: with the flag off can_dispatch_torch_function is false, and
\* var_getattr and call_method call no handler and give what the base tensor
\* variable gives, for every name.
C6_DisabledBypass ==
    (~enabled /\ pc = "done") =>
        /\ op = "can_dispatch" => res = BoolResult(FALSE)
        /\ op = "var_getattr" => calls = <<>> /\ res = BaseResult("var_getattr")
        /\ op = "call_method" => calls = <<>> /\ res = BaseResult("call_method")

\* C7: var_getattr of a name of the deny-list, or of a name torch.Tensor does
\* not have, ends in UnsupportedAttribute without a handler call, overridden
\* or not.
C7_DenyListFirst ==
    (op = "var_getattr" /\ pc = "done" /\ (name.banned \/ ~name.onBase)) =>
        res = Raised("UnsupportedAttribute") /\ calls = <<>>

\* C7 witness: a deny-listed name the subclass overrides, flag on.
C7_Witness ==
    /\ op = "var_getattr"
    /\ pc = "done"
    /\ enabled
    /\ name.banned
    /\ name.static = "own"
    /\ res = Raised("UnsupportedAttribute")

\* the static lookup on the declared type finds an implementation that is
\* not the one of torch.Tensor
ImplementationDiffers(n) == n.onBase /\ n.static = "own"

\* C8 as stated: with the flag on, attribute access or a method call for a
\* name whose implementation on the declared type differs from the one of
\* torch.Tensor ends in OverriddenAttributeUnsupported without a handler call.
C8_OverriddenRefused ==
    (/\ enabled
     /\ pc = "done"
     /\ op \in {"var_getattr", "call_method"}
     /\ ImplementationDiffers(name)) =>
        res = Raised("OverriddenAttributeUnsupported") /\ calls = <<>>

\* C8 amended: the same for every method call, and for attribute access when
\* the name is not in the deny-list (a deny-listed name ends in
\* UnsupportedAttribute before the override check).
C8_OverriddenRefusedUnlessDenied ==
    (/\ enabled
     /\ pc = "done"
     /\ op \in {"var_getattr", "call_method"}
     /\ ImplementationDiffers(name)
     /\ (op = "var_getattr" => ~name.banned)) =>
        res = Raised("OverriddenAttributeUnsupported") /\ calls = <<>>

\* C8 witness: a method call for an overridden name, refused.
C8_Witness ==
    /\ enabled
    /\ pc = "done"
    /\ op = "call_method"
    /\ ImplementationDiffers(name)
    /\ res = Raised("OverriddenAttributeUnsupported")
    /\ calls = <<>>

\* C9: no entry point returns the sentinel to the tracer.
C9_NoSentinelReturned ==
    (pc = "done" /\ op \in {"dispatch", "var_getattr", "call_method"}) =>
        ~ReturnedSentinel(res)

\* C10: with the flag on, a method call for a name torch.Tensor does not have,
\* or a name of the deny-list, ends in UnsupportedAttribute without a handler
\* call, with or without a source.
C10_MethodNameChecked ==
    (/\ enabled
     /\ op = "call_method"
     /\ pc = "done"
     /\ (~name.onBase \/ name.banned)) =>
        res = Raised("UnsupportedAttribute") /\ calls = <<>>

\* what the handler is given for positional and keyword arguments: the
\* tracked value followed by the arguments of the call site, and its keyword
\* arguments
TrampolineArgsPassed(c) ==
    IF op = "var_getattr"
    THEN c.args = <<Leaf(OvLeaf(recv.class_type))>> /\ c.kwargs = <<>>
    ELSE /\ c.args = args
         /\ c.kwargs = kwargs
         /\ Len(args) >= 1
         /\ args[1] = Leaf(OvLeaf(recv.class_type))

\* C11 as stated: every handler call of an attribute access or a method call
\* gets the one-element type tuple of the tracked value's type, the tracked
\* value followed by the call site's arguments, and its keyword arguments.
C11_TrampolineCall ==
    (op \in {"var_getattr", "call_method"}) =>
        \A i \in 1..Len(calls) :
            /\ calls[i].types = <<recv.class_type>>
            /\ TrampolineArgsPassed(calls[i])

\* C11 amended: the arguments are as stated; the type tuple is the one
\* element for an attribute access, and for a method call it is the order of
\* the overriding types of the tracked value and the call site's arguments,
\* which is the one element when no argument overrides with another type.
C11_TrampolineCallTypesOfOrder ==
    (op \in {"var_getattr", "call_method"}) =>
        \A i \in 1..Len(calls) :
            /\ TrampolineArgsPassed(calls[i])
            /\ op = "var_getattr" => calls[i].types = <<recv.class_type>>
            /\ op = "call_method" =>
                /\ calls[i].types = OverloadOrder
                /\ (\A k \in 1..Len(LeafTypes) : LeafTypes[k] = recv.class_type) =>
                      calls[i].types = <<recv.class_type>>

\* C11 witness: a method call with a keyword argument that overrides with
\* another type; both handlers were called.
C11_Witness ==
    /\ op = "call_method"
    /\ pc = "done"
    /\ Len(calls) = 2
    /\ Len(kwargs) = 1
    /\ kwargs[1].v.tf
    /\ kwargs[1].v.class_type # recv.class_type

\* C12: the subclass-precedence reordering of a first-occurrence list ends,
\* whichever eligible pair is moved at each step, and it ends in a list with
\* no type standing before one of its strict subclasses.
C12_ReorderTerminates ==
    (pc = "reorder") ~> (pc = "done" /\ EligiblePairs(hier, overloaded_args) = {})

\* C12 witness: leaves [A, B, C] of a chain C < B < A have been reordered to
\* [C, B, A], which takes more than one move.
C12_Witness ==
    /\ op = "reorder"
    /\ pc = "done"
    /\ Len(LeafTypes) = 3
    /\ <<LeafTypes[2], LeafTypes[1]>> \in hier
    /\ <<LeafTypes[3], LeafTypes[2]>> \in hier
    /\ OverloadOrder = <<LeafTypes[3], LeafTypes[2], LeafTypes[1]>>

\* C13: the registry of installed names only grows; each key is derived from
\* the declared name and the identity of the class it holds, so distinct
\* classes have distinct keys, also when declared with the same name; a class
\* is installed by the first from_tensor_var that wraps it, and wrapping it
\* again installs nothing and raises no error.
C13_RegistryAppendOnly ==
    /\ [](/\ \A e1 \in global_scope, e2 \in global_scope :
                (e1.key = e2.key \/ e1.value = e2.value) => e1 = e2
          /\ \A e \in global_scope : e.key = <<DeclaredName(e.value), ClassId(e.value)>>
          /\ (op = "from_tensor_var" /\ res.kind = "wrapped") =>
                \E e \in global_scope : e.value = recv.class_type)
    /\ [][/\ global_scope \subseteq global_scope'
          /\ (pc = "idle" /\ op' = "from_tensor_var" /\ res'.kind # "error") =>
                IF \E e \in global_scope : e.value = recv'.class_type
                THEN global_scope' = global_scope /\ res' = WrappedResult(recv'.class_type, FALSE)
                ELSE /\ res' = WrappedResult(recv'.class_type, TRUE)
                     /\ Cardinality(global_scope') = Cardinality(global_scope) + 1]_vars

\* C13 witness: a class is wrapped again while the registry also holds
\* another class declared with the same name.
C13_Witness ==
    /\ op = "from_tensor_var"
    /\ pc = "done"
    /\ res = WrappedResult(recv.class_type, FALSE)
    /\ \E e \in global_scope :
          /\ e.value # recv.class_type
          /\ DeclaredName(e.value) = DeclaredName(recv.class_type)

\* C14: build_torch_function_fn uses the source-tracked builder exactly when
\* a source is given and the source-less builder exactly when none is, so it
\* never roots an attribute source at an absent source.
C14_BuilderMatchesSource ==
    (op = "build_torch_function_fn" /\ pc = "done") =>
        /\ res.value = "VariableBuilder" <=> recv.source
        /\ res.value = "SourcelessBuilder" <=> ~recv.source

====
